---------------------------- MODULE Spec2Model ----------------------------
(***************************************************************************)
(* Model of tools/upgrade_fbx.cpp: main() reads two paths from the command *)
(* line, imports a scene with the FBX SDK and exports it again.            *)
(*                                                                         *)
(* One action per statement of main.  The SDK is the environment: whether  *)
(* FbxManager::Create, FbxImporter::Initialize, FbxImporter::Import,       *)
(* FbxExporter::Initialize and FbxExporter::Export succeed is chosen       *)
(* nondeterministically, as is the diagnostic text of a failed call.       *)
(* Every SDK call is appended to the history variable calls, every line    *)
(* written to std::cout to stdout.                                         *)
(*                                                                         *)
(* Environment assumptions: argc >= 1 (a hosted environment passes the     *)
(* program name), and the SDK Create calls other than FbxManager::Create   *)
(* return an object (main tests none of them).                             *)
(***************************************************************************)
EXTENDS Integers, Sequences, FiniteSets, TLC

VARIABLES pc, argc, argv, inputFile, outputFile, sdkManager,
          importStatus, exportStatus, objs, status, calls, stdout, exitCode

vars == <<pc, argc, argv, inputFile, outputFile, sdkManager,
          importStatus, exportStatus, objs, status, calls, stdout, exitCode>>

---------------------------------------------------------------------------
(* Bounds *)

MaxArgc == 4

MaxPathLen == 1

---------------------------------------------------------------------------
(* C strings and std::string *)

Chars == {1, 2}

RECURSIVE SeqsUpTo(_)
SeqsUpTo(n) ==
  IF n = 0 THEN {<< >>}
  ELSE LET shorter == SeqsUpTo(n - 1)
       IN  shorter \cup {Append(s, c) : s \in shorter, c \in Chars}

\* A char* argument: characters of Chars followed by the terminating NUL (0).
CStrings == {Append(s, 0) : s \in SeqsUpTo(MaxPathLen)}

ProgName == <<1, 0>>

\* std::string(const char*): copies the characters before the first NUL.
StdString(c) ==
  LET n == CHOOSE i \in 1..Len(c) : c[i] = 0 /\ \A j \in 1..(i - 1) : c[j] # 0
  IN  SubSeq(c, 1, n - 1)

\* std::string::c_str(): the characters followed by a NUL.
CStr(s) == Append(s, 0)

---------------------------------------------------------------------------
(* The SDK objects *)

Objects == {"manager", "ios", "importer", "scene", "exporter"}

ErrorStrings == {"File not found", "Unexpected file type"}

\* One SDK call: uses is the set of objects the call dereferences; the call
\* is valid when all of them are alive.
Call(op, obj, arg, ok, uses) ==
  [op |-> op, obj |-> obj, arg |-> arg, ok |-> ok,
   valid |-> \A o \in uses : objs[o] = "alive"]

\* FbxManager::Destroy releases the manager and every object created with it.
ManagerDestroy(o) ==
  [x \in Objects |-> IF o[x] = "alive" THEN "destroyed" ELSE o[x]]

Line(kind, text, p1, p2) == [kind |-> kind, text |-> text, p1 |-> p1, p2 |-> p2]

---------------------------------------------------------------------------
(* Control flow of main *)

ArgcExpected == 3

Stmts == <<"argcCheck", "copyArgs", "mgrCreate", "mgrCheck", "iosCreate",
           "setIOSettings", "importerCreate", "importerInit", "importCheck",
           "sceneCreate", "import", "importerDestroy", "exporterCreate",
           "exporterInit", "exportCheck", "export", "exporterDestroy",
           "mgrDestroy", "printSuccess", "return0">>

NextIn(seq, l) ==
  LET i == CHOOSE k \in 1..Len(seq) : seq[k] = l
  IN  IF i < Len(seq) THEN seq[i + 1] ELSE "done"

\* Mutant orders: the success message before the releases; the scene
\* created before the importer is initialized; the manager destroyed before
\* the exporter.
StmtsPrintEarly ==
  <<"argcCheck", "copyArgs", "mgrCreate", "mgrCheck", "iosCreate",
    "setIOSettings", "importerCreate", "importerInit", "importCheck",
    "sceneCreate", "import", "importerDestroy", "exporterCreate",
    "exporterInit", "exportCheck", "export", "printSuccess",
    "exporterDestroy", "mgrDestroy", "return0">>

StmtsSceneFirst ==
  <<"argcCheck", "copyArgs", "mgrCreate", "mgrCheck", "iosCreate",
    "setIOSettings", "importerCreate", "sceneCreate", "importerInit",
    "importCheck", "import", "importerDestroy", "exporterCreate",
    "exporterInit", "exportCheck", "export", "exporterDestroy",
    "mgrDestroy", "printSuccess", "return0">>

StmtsMgrDestroyFirst ==
  <<"argcCheck", "copyArgs", "mgrCreate", "mgrCheck", "iosCreate",
    "setIOSettings", "importerCreate", "importerInit", "importCheck",
    "sceneCreate", "import", "importerDestroy", "exporterCreate",
    "exporterInit", "exportCheck", "export", "mgrDestroy",
    "exporterDestroy", "printSuccess", "return0">>

NextStmtPrintEarly(l) == NextIn(StmtsPrintEarly, l)

NextStmtSceneFirst(l) == NextIn(StmtsSceneFirst, l)

NextStmtMgrDestroyFirst(l) == NextIn(StmtsMgrDestroyFirst, l)

\* The statement that follows l when l falls through.
NextStmt(l) == NextIn(Stmts, l)

WrongArgCountTooFew(n) == n < ArgcExpected

\* if (argc != 3)
WrongArgCount(n) == n # ArgcExpected

ManagerCreateFailedInverted(m) == m # "NULL"

\* if (!sdkManager)
ManagerCreateFailed(m) == m = "NULL"

\* if (!importStatus)
ImportInitFailed(s) == ~s

ExportInitFailedInverted(s) == s

\* if (!exportStatus)
ExportInitFailed(s) == ~s

\* inputFile.c_str(), the first argument of importer->Initialize
ImporterFileName == CStr(inputFile)

ExporterFileNameSwapped == CStr(inputFile)

\* outputFile.c_str(), the first argument of exporter->Initialize
ExporterFileName == CStr(outputFile)

---------------------------------------------------------------------------
(* Initial state: the process has been started with argc, argv *)

Init ==
  /\ argc \in 1..MaxArgc
  /\ argv \in [0..(argc - 1) -> CStrings]
  /\ argv[0] = ProgName
  /\ pc = "argcCheck"
  /\ inputFile = << >>
  /\ outputFile = << >>
  /\ sdkManager = "NULL"
  /\ importStatus = FALSE
  /\ exportStatus = FALSE
  /\ objs = [o \in Objects |-> "none"]
  /\ status = [o \in {"importer", "exporter"} |-> ""]
  /\ calls = << >>
  /\ stdout = << >>
  /\ exitCode = -1

Return(code) ==
  /\ exitCode' = code
  /\ pc' = "done"

Goto(l) ==
  /\ pc' = l
  /\ UNCHANGED exitCode

\* if (argc != 3) { usage; return 1; }
ArgcCheck ==
  /\ pc = "argcCheck"
  /\ IF WrongArgCount(argc)
       THEN /\ stdout' = Append(stdout, Line("usage", "", StdString(argv[0]), << >>))
            /\ Return(1)
       ELSE /\ Goto(NextStmt("argcCheck"))
            /\ UNCHANGED stdout
  /\ UNCHANGED <<argc, argv, inputFile, outputFile, sdkManager, importStatus,
                 exportStatus, objs, status, calls>>

\* std::string inputFile = argv[1]; std::string outputFile = argv[2];
CopyArgs ==
  /\ pc = "copyArgs"
  /\ inputFile' = StdString(argv[1])
  /\ outputFile' = StdString(argv[2])
  /\ Goto(NextStmt("copyArgs"))
  /\ UNCHANGED <<argc, argv, sdkManager, importStatus, exportStatus, objs,
                 status, calls, stdout>>

\* FbxManager* sdkManager = FbxManager::Create();
MgrCreate ==
  /\ pc = "mgrCreate"
  /\ \E ok \in BOOLEAN :
       /\ sdkManager' = IF ok THEN "manager" ELSE "NULL"
       /\ objs' = IF ok THEN [objs EXCEPT !["manager"] = "alive"] ELSE objs
       /\ calls' = Append(calls, Call("Create", "manager", << >>, ok, {}))
  /\ Goto(NextStmt("mgrCreate"))
  /\ UNCHANGED <<argc, argv, inputFile, outputFile, importStatus,
                 exportStatus, status, stdout>>

\* if (!sdkManager) { error; return 1; }
MgrCheck ==
  /\ pc = "mgrCheck"
  /\ IF ManagerCreateFailed(sdkManager)
       THEN /\ stdout' = Append(stdout, Line("mgrError", "", << >>, << >>))
            /\ Return(1)
       ELSE /\ Goto(NextStmt("mgrCheck"))
            /\ UNCHANGED stdout
  /\ UNCHANGED <<argc, argv, inputFile, outputFile, sdkManager, importStatus,
                 exportStatus, objs, status, calls>>

\* Obj::Create(sdkManager, ...)
CreateWithManager(l, obj) ==
  /\ pc = l
  /\ calls' = Append(calls, Call("Create", obj, << >>, TRUE, {"manager"}))
  /\ objs' = [objs EXCEPT ![obj] = "alive"]
  /\ Goto(NextStmt(l))
  /\ UNCHANGED <<argc, argv, inputFile, outputFile, sdkManager, importStatus,
                 exportStatus, status, stdout>>

\* FbxIOSettings* ios = FbxIOSettings::Create(sdkManager, IOSROOT);
IosCreate == CreateWithManager("iosCreate", "ios")

\* sdkManager->SetIOSettings(ios);
SetIOSettings ==
  /\ pc = "setIOSettings"
  /\ calls' = Append(calls, Call("SetIOSettings", "manager", << >>, TRUE,
                                 {"manager", "ios"}))
  /\ Goto(NextStmt("setIOSettings"))
  /\ UNCHANGED <<argc, argv, inputFile, outputFile, sdkManager, importStatus,
                 exportStatus, objs, status, stdout>>

\* FbxImporter* importer = FbxImporter::Create(sdkManager, "");
ImporterCreate == CreateWithManager("importerCreate", "importer")

\* obj->Initialize(file, -1, sdkManager->GetIOSettings())
Initialize(obj, file, ok, err) ==
  /\ calls' = calls \o
       << Call("GetIOSettings", "manager", << >>, TRUE, {"manager", "ios"}),
          Call("Initialize", obj, file, ok, {obj, "ios"}) >>
  /\ status' = IF ok THEN status ELSE [status EXCEPT ![obj] = err]

\* bool importStatus = importer->Initialize(inputFile.c_str(), -1, ...);
ImporterInit ==
  /\ pc = "importerInit"
  /\ \E ok \in BOOLEAN, err \in ErrorStrings :
       /\ Initialize("importer", ImporterFileName, ok, err)
       /\ importStatus' = ok
  /\ Goto(NextStmt("importerInit"))
  /\ UNCHANGED <<argc, argv, inputFile, outputFile, sdkManager, exportStatus,
                 objs, stdout>>

\* if (!status) { two error lines, the second with GetStatus().GetErrorString();
\*                return 1; }
InitCheck(l, failed, obj, kind) ==
  /\ pc = l
  /\ IF failed
       THEN /\ stdout' = stdout \o << Line(kind, "", << >>, << >>),
                                      Line("errorReturned", status[obj], << >>, << >>) >>
            /\ calls' = Append(calls, Call("GetStatus", obj, << >>, TRUE, {obj}))
            /\ Return(1)
       ELSE /\ Goto(NextStmt(l))
            /\ UNCHANGED <<stdout, calls>>
  /\ UNCHANGED <<argc, argv, inputFile, outputFile, sdkManager, importStatus,
                 exportStatus, objs, status>>

ImportCheck ==
  InitCheck("importCheck", ImportInitFailed(importStatus), "importer", "importInitError")

\* FbxScene* scene = FbxScene::Create(sdkManager, "");
SceneCreate == CreateWithManager("sceneCreate", "scene")

\* obj->Import(scene) / obj->Export(scene): the bool result is discarded.
Transfer(l, op, obj) ==
  /\ pc = l
  /\ \E ok \in BOOLEAN, err \in ErrorStrings :
       /\ calls' = Append(calls, Call(op, obj, << >>, ok, {obj, "scene"}))
       /\ status' = IF ok THEN status ELSE [status EXCEPT ![obj] = err]
  /\ Goto(NextStmt(l))
  /\ UNCHANGED <<argc, argv, inputFile, outputFile, sdkManager, importStatus,
                 exportStatus, objs, stdout>>

\* importer->Import(scene);
Import == Transfer("import", "Import", "importer")

\* obj->Destroy()
Destroy(l, obj) ==
  /\ pc = l
  /\ calls' = Append(calls, Call("Destroy", obj, << >>, TRUE, {obj}))
  /\ objs' = IF obj = "manager" THEN ManagerDestroy(objs)
             ELSE [objs EXCEPT ![obj] = "destroyed"]
  /\ Goto(NextStmt(l))
  /\ UNCHANGED <<argc, argv, inputFile, outputFile, sdkManager, importStatus,
                 exportStatus, status, stdout>>

\* importer->Destroy();
ImporterDestroy == Destroy("importerDestroy", "importer")

\* FbxExporter* exporter = FbxExporter::Create(sdkManager, "");
ExporterCreate == CreateWithManager("exporterCreate", "exporter")

\* bool exportStatus = exporter->Initialize(outputFile.c_str(), -1, ...);
ExporterInit ==
  /\ pc = "exporterInit"
  /\ \E ok \in BOOLEAN, err \in ErrorStrings :
       /\ Initialize("exporter", ExporterFileName, ok, err)
       /\ exportStatus' = ok
  /\ Goto(NextStmt("exporterInit"))
  /\ UNCHANGED <<argc, argv, inputFile, outputFile, sdkManager, importStatus,
                 objs, stdout>>

ExportCheck ==
  InitCheck("exportCheck", ExportInitFailed(exportStatus), "exporter", "exportInitError")

\* exporter->Export(scene);
Export == Transfer("export", "Export", "exporter")

\* exporter->Destroy();
ExporterDestroy == Destroy("exporterDestroy", "exporter")

\* sdkManager->Destroy();
MgrDestroy == Destroy("mgrDestroy", "manager")

\* std::cout << "FBX file upgraded successfully: " << inputFile << " -> " << outputFile
PrintSuccess ==
  /\ pc = "printSuccess"
  /\ stdout' = Append(stdout, Line("success", "", inputFile, outputFile))
  /\ Goto(NextStmt("printSuccess"))
  /\ UNCHANGED <<argc, argv, inputFile, outputFile, sdkManager, importStatus,
                 exportStatus, objs, status, calls>>

\* return 0;
Return0 ==
  /\ pc = "return0"
  /\ Return(0)
  /\ UNCHANGED <<argc, argv, inputFile, outputFile, sdkManager, importStatus,
                 exportStatus, objs, status, calls, stdout>>

Next ==
  \/ ArgcCheck
  \/ CopyArgs
  \/ MgrCreate
  \/ MgrCheck
  \/ IosCreate
  \/ SetIOSettings
  \/ ImporterCreate
  \/ ImporterInit
  \/ ImportCheck
  \/ SceneCreate
  \/ Import
  \/ ImporterDestroy
  \/ ExporterCreate
  \/ ExporterInit
  \/ ExportCheck
  \/ Export
  \/ ExporterDestroy
  \/ MgrDestroy
  \/ PrintSuccess
  \/ Return0

Spec == Init /\ [][Next]_vars

---------------------------------------------------------------------------
(* Observations on a run *)

Done == pc = "done"

CallIdx(obj, op) == {i \in DOMAIN calls : calls[i].obj = obj /\ calls[i].op = op}

Called(obj, op) == CallIdx(obj, op) # {}

Failed(obj, op) == \E i \in CallIdx(obj, op) : ~calls[i].ok

Succeeded(obj, op) == \E i \in CallIdx(obj, op) : calls[i].ok

Printed(kind) == \E i \in DOMAIN stdout : stdout[i].kind = kind

\* i < j for every call i of the first kind and j of the second
Before(obj1, op1, obj2, op2) ==
  \A i \in CallIdx(obj1, op1), j \in CallIdx(obj2, op2) : i < j

ImportFailure == Failed("importer", "Initialize") \/ Failed("importer", "Import")

ExportFailure == Failed("exporter", "Initialize") \/ Failed("exporter", "Export")

\* The error line that carries the diagnostic text the SDK holds for obj.
PrintedDiagnostic(obj) ==
  \E i \in DOMAIN stdout :
    /\ stdout[i].kind = "errorReturned"
    /\ stdout[i].text = status[obj]
    /\ stdout[i].text \in ErrorStrings

\* The steps C8 lists, in the order it lists them.
FixedOrder ==
  << <<"manager", "Create">>, <<"importer", "Initialize">>,
     <<"scene", "Create">>, <<"importer", "Import">>,
     <<"importer", "Destroy">>, <<"exporter", "Initialize">>,
     <<"exporter", "Export">>, <<"exporter", "Destroy">>,
     <<"manager", "Destroy">> >>

IsListed(c) == \E k \in DOMAIN FixedOrder : FixedOrder[k] = <<c.obj, c.op>>

ListedCalls == SelectSeq(calls, IsListed)

---------------------------------------------------------------------------
(* Claims *)

\* C1 (as stated): a finished run exits 1 on a wrong argument count, on an
\* import failure (importer Initialize or Import failed) and on an export
\* failure (exporter Initialize or Export failed), and exits 0 only when no
\* step failed.
C1_ExitCodeReflectsFailure ==
  Done =>
    /\ exitCode \in {0, 1}
    /\ (argc # ArgcExpected \/ ImportFailure \/ ExportFailure) => exitCode = 1
    /\ exitCode = 0 => (~ImportFailure /\ ~ExportFailure /\ Called("exporter", "Export"))

\* C2: with an argument count other than two (argc # 3) no SDK call is ever
\* made, and the finished run has printed exactly the usage line and exited
\* non-zero.
C2_UsageErrorTouchesNothing ==
  argc # ArgcExpected =>
    /\ calls = << >>
    /\ \A o \in Objects : objs[o] = "none"
    /\ Done => /\ stdout = << Line("usage", "", StdString(argv[0]), << >>) >>
               /\ exitCode = 1

C2_Witness == Done /\ argc > ArgcExpected /\ Printed("usage")

\* C3 (as stated): when the SDK cannot open or parse the source (importer
\* Initialize or Import failed), the finished run has printed the importer's
\* diagnostic text, exited non-zero, and no exporter was created,
\* initialized or used.
C3_SourceFailureNoExport ==
  ImportFailure =>
    /\ \A i \in DOMAIN calls : calls[i].obj # "exporter"
    /\ Done => (PrintedDiagnostic("importer") /\ exitCode # 0)

\* C4: when importer Initialize and Import succeeded and exporter Initialize
\* failed, Export is never called and no success line is printed, and the
\* finished run has printed the exporter's diagnostic text and exited
\* non-zero.
C4_WriterInitFailure ==
  (Succeeded("importer", "Initialize") /\ Succeeded("importer", "Import")
     /\ Failed("exporter", "Initialize")) =>
    /\ ~Called("exporter", "Export")
    /\ ~Printed("success")
    /\ Done => /\ Printed("exportInitError")
               /\ PrintedDiagnostic("exporter")
               /\ exitCode = 1

C4_Witness ==
  /\ Done
  /\ Succeeded("importer", "Initialize")
  /\ Succeeded("importer", "Import")
  /\ Failed("exporter", "Initialize")
  /\ PrintedDiagnostic("exporter")

\* C5: a finished run with two arguments in which importer Initialize and
\* exporter Initialize succeeded has called Export exactly once, then
\* destroyed the exporter, then the manager, then printed exactly one line,
\* the success message with argv[1] and argv[2] verbatim, and exited 0; in
\* every finished run the success message is printed iff the exit code is 0;
\* and the success message is never on stdout while the exporter or the
\* manager is not yet destroyed.
C5_SuccessPath ==
  /\ (Done /\ argc = ArgcExpected /\ Succeeded("importer", "Initialize")
        /\ Succeeded("exporter", "Initialize")) =>
       /\ Cardinality(CallIdx("exporter", "Export")) = 1
       /\ Cardinality(CallIdx("exporter", "Destroy")) = 1
       /\ Cardinality(CallIdx("manager", "Destroy")) = 1
       /\ Before("exporter", "Export", "exporter", "Destroy")
       /\ Before("exporter", "Destroy", "manager", "Destroy")
       /\ stdout = << Line("success", "", StdString(argv[1]), StdString(argv[2])) >>
       /\ exitCode = 0
  /\ Done => (Printed("success") <=> exitCode = 0)
  /\ Printed("success") =>
       /\ objs["exporter"] = "destroyed"
       /\ objs["manager"] = "destroyed"

C5_Witness ==
  /\ Done
  /\ exitCode = 0
  /\ Printed("success")
  /\ argv[1] # argv[2]
  /\ Succeeded("exporter", "Export")

\* C6: the only calls that carry a path are the Initialize calls; the
\* importer is only initialized on argv[1] and the exporter only on argv[2].
C6_OnlyTheTwoArguments ==
  \A i \in DOMAIN calls :
    /\ calls[i].op # "Initialize" => calls[i].arg = << >>
    /\ calls[i].op = "Initialize" => calls[i].obj \in {"importer", "exporter"}
    /\ (calls[i].op = "Initialize" /\ calls[i].obj = "importer") => calls[i].arg = argv[1]
    /\ (calls[i].op = "Initialize" /\ calls[i].obj = "exporter") => calls[i].arg = argv[2]

C6_Witness ==
  /\ Done
  /\ Called("importer", "Initialize")
  /\ Called("exporter", "Initialize")
  /\ argv[1] # argv[2]

\* C7 (as stated): at exit, on every path but the exporter-initialization
\* failure path, no object the run created is still alive.
C7_ReleasedExceptExportInitFailure ==
  (Done /\ ~Printed("exportInitError")) => \A o \in Objects : objs[o] # "alive"

\* C8: the listed SDK steps occur in the listed order, each at most once:
\* the listed calls made so far are a prefix of FixedOrder; nothing listed
\* follows a failed Initialize; and the exporter is created only after the
\* importer was destroyed.
C8_FixedOrder ==
  /\ Len(ListedCalls) <= Len(FixedOrder)
  /\ \A i \in DOMAIN ListedCalls :
       <<ListedCalls[i].obj, ListedCalls[i].op>> = FixedOrder[i]
  /\ \A i \in DOMAIN ListedCalls :
       (ListedCalls[i].op = "Initialize" /\ ~ListedCalls[i].ok) => i = Len(ListedCalls)
  /\ Called("exporter", "Create") => Called("importer", "Destroy")
  /\ Before("importer", "Destroy", "exporter", "Create")

C8_Witness == Done /\ Len(ListedCalls) = Len(FixedOrder)

\* C9: every SDK call is made on objects that are alive when it is made (no
\* use after release, no double release), and no SDK call follows the
\* manager's Destroy, which leaves no object alive.
C9_NoUseAfterRelease ==
  /\ \A i \in DOMAIN calls : calls[i].valid
  /\ \A i \in CallIdx("manager", "Destroy") : i = Len(calls)
  /\ Called("manager", "Destroy") => \A o \in Objects : objs[o] # "alive"

C9_Witness ==
  /\ Done
  /\ Called("manager", "Destroy")
  /\ objs["scene"] = "destroyed"
  /\ objs["ios"] = "destroyed"

\* C10: when FbxManager::Create fails, that is the only SDK call of the run
\* and no object is created, and the finished run has printed exactly the
\* manager-creation error and exited 1.
C10_ManagerCreateFailure ==
  Failed("manager", "Create") =>
    /\ Len(calls) = 1
    /\ \A o \in Objects : objs[o] = "none"
    /\ Done => /\ stdout = << Line("mgrError", "", << >>, << >>) >>
               /\ exitCode = 1

C10_Witness == Done /\ Failed("manager", "Create") /\ Printed("mgrError")

=============================================================================
